---- MODULE Spec2Model ----
(***************************************************************************)
(* Model of the container console multiplexer, lxc/console.c:              *)
(*   - the allocator run by the container supervisor                       *)
(*     (lxc_console_create / _allocate / _free / _delete), and             *)
(*   - the attach driver run by the client (lxc_console and its pumps).    *)
(* The two run in different processes; each has its own specification      *)
(* (Spec for the supervisor, SpecAttach for the client).                   *)
(***************************************************************************)
EXTENDS Integers, Sequences, FiniteSets, TLC

\* ------------------------------------------------------------------ bounds
MaxTty == 2          \* largest configured number of tty slots (conf->tty_info.nbtty)
MaxClients == 2      \* number of distinct client control sockets
MaxInput == 5        \* bytes the attach driver reads from stdin in one session
MaxChunk == 1        \* largest read() result of the client master pump
MaxGetfd == 1        \* calls of lxc_console_getfd a client makes before lxc_console

\* ------------------------------------------------------- program constants
CharQ == 113         \* 'q'

SIGWINCH == "SIGWINCH"

\* Control-socket descriptors of the clients: the descriptors after stdio. They are
\* positive: busy = 0 is how a tty slot says it is free (console.c:429, 471).
ClientFds == 3..(2 + MaxClients)

\* Escape bytes the attach driver is started with (Ctrl-a, Ctrl-b).
Escapes == {1, 2}

\* The bytes typed: the escapes, 'q' and an ordinary byte ('x').
Bytes == Escapes \cup {CharQ, 120}

VARIABLES
  phase,      \* supervisor: "conf" | "creating" | "created" | "running" | "allocating"
              \*   | "stopped" | "failed" | "deleted"
  conf,       \* the loaded configuration: is_execute, rootfs.path, console.path, log_path
  nbtty,      \* conf->tty_info.nbtty
  pty_info,   \* conf->tty_info.pty_info[1..nbtty]: [master, busy]
  console,    \* conf->console
  lxc_ttys,   \* the process-wide list of trackers (sequence of tracker ids)
  ts_heap,    \* the malloc'ed struct lxc_tty_state objects, by id
  sigmask,    \* the signal mask of the process (set of blocked signals)
  fds,        \* the descriptor table of the process (set of open descriptors)
  descr,      \* console->descr: descriptors with a handler in the supervisor's loop
  call,       \* the last allocator call and what it returned
  holder,     \* history: per slot (0 = console), the clients it was handed to
  at_pc,      \* attach driver: "entry" | "loop" | "returned"
  at_ret,     \* return value of lxc_console
  at_arg,     \* lxc_console's call: the escape argument, the outcome of its setup
  oldtios,    \* lxc_console's saved termios: "none" until setup_tios fills it
  at_ts,      \* the attach driver's tracker (id in ts_heap, 0 = none)
  at_fd,      \* [ttyfd, masterfd] obtained from the command channel
  stdin_tios, \* termios of the client's stdin: "cooked" | "raw"
  unwind,     \* releases performed by lxc_console, in order
  rd,         \* what the stdin pump's reads returned: a byte, or Eof
  wr,         \* bytes written to masterfd by the stdin pump
  hcall,      \* the last pump handler invocation
  pcall,      \* supervisor: the last call of the console pump lxc_console_cb_con
  dblclose,   \* history: descriptors close() was called on while they were not open
  tcall,      \* the last call of lxc_console_sigwinch_init / _fini made by a tracker user
  premask,    \* history: per tracker, the signal mask observed before its init
  mask0       \* history: the signal mask before the first tracker was created

vars == <<phase, conf, nbtty, pty_info, console, lxc_ttys, ts_heap, sigmask, fds, descr,
          call, holder, at_pc, at_ret, at_arg, oldtios, at_ts, at_fd, stdin_tios, unwind, rd, wr, hcall,
          pcall, dblclose, tcall, premask, mask0>>

supVars == <<phase, conf, nbtty, pty_info, console, descr, call, holder>>

procVars == <<lxc_ttys, ts_heap, sigmask, fds>>

atVars == <<at_pc, at_ret, at_arg, oldtios, at_ts, at_fd, stdin_tios, unwind, rd, wr, hcall>>

pumpVars == <<pcall, dblclose>>

trackVars == <<tcall, premask, mask0>>

\* ------------------------------------------------------- descriptor table
\* open(), openpty(), signalfd(), accept(): the lowest descriptor not in use.
NewFd(S) == CHOOSE n \in 0..Cardinality(S) : n \notin S /\ \A m \in 0..(n - 1) : m \in S

\* close(fd): closing a descriptor that is not open (EBADF, or -1) changes nothing.
Close(S, fd) == S \ {fd}

\* ------------------------------------------------------------ the tracker
TsIds == 1..2

NoTs == [live |-> FALSE, stdinfd |-> -1, stdoutfd |-> -1, masterfd |-> -1, escape |-> 0,
         saw_escape |-> 0, sigfd |-> -1, oldmask |-> {}]

\* The process state the tracker functions act on.
Proc == [ttys |-> lxc_ttys, heap |-> ts_heap, mask |-> sigmask, fds |-> fds]

\* malloc(sizeof(*ts)): the first tracker object not in use.
MallocTs(heap) == CHOOSE i \in TsIds : ~heap[i].live /\ \A j \in 1..(i - 1) : heap[j].live

\* lxc_list_del(&ts->node)
ListDel(ttys, id) == SelectSeq(ttys, LAMBDA x : x # id)

SwOutcomes == {"ok", "nomem", "block_fail", "sigfd_fail"}

\* lxc_console_sigwinch_init(srcfd, dstfd) under outcome o of malloc, sigprocmask
\* and signalfd: the new process state and the tracker (0 = NULL).
SigwinchInitNoRollback(p, srcfd, dstfd, o) ==
  IF o = "nomem" \/ \A i \in TsIds : p.heap[i].live THEN [p |-> p, ts |-> 0]
  ELSE LET id == MallocTs(p.heap)
           added == Append(p.ttys, id)
           sigfd == NewFd(p.fds)
           ts == [live |-> TRUE, stdinfd |-> srcfd, stdoutfd |-> 0, masterfd |-> dstfd,
                  escape |-> 0, saw_escape |-> 0, sigfd |-> sigfd, oldmask |-> p.mask]
       IN CASE o = "block_fail" -> [p |-> [p EXCEPT !.ttys = added], ts |-> 0]
            [] o = "sigfd_fail" -> [p |-> [p EXCEPT !.ttys = added,
                                                     !.mask = p.mask \cup {SIGWINCH}],
                                    ts |-> 0]
            [] OTHER -> [p |-> [ttys |-> added,
                                heap |-> [p.heap EXCEPT ![id] = ts],
                                mask |-> p.mask \cup {SIGWINCH},
                                fds |-> p.fds \cup {sigfd}],
                         ts |-> id]

lxc_console_sigwinch_init(p, srcfd, dstfd, o) ==
  IF o = "nomem" \/ \A i \in TsIds : p.heap[i].live THEN [p |-> p, ts |-> 0]
  ELSE LET id == MallocTs(p.heap)
           added == Append(p.ttys, id)
           sigfd == NewFd(p.fds)
           ts == [live |-> TRUE, stdinfd |-> srcfd, stdoutfd |-> 0, masterfd |-> dstfd,
                  escape |-> 0, saw_escape |-> 0, sigfd |-> sigfd, oldmask |-> p.mask]
       IN CASE o = "block_fail" -> [p |-> [p EXCEPT !.ttys = ListDel(added, id)], ts |-> 0]
            [] o = "sigfd_fail" -> [p |-> [p EXCEPT !.ttys = ListDel(added, id),
                                                     !.mask = ts.oldmask], ts |-> 0]
            [] OTHER -> [p |-> [ttys |-> added,
                                heap |-> [p.heap EXCEPT ![id] = ts],
                                mask |-> p.mask \cup {SIGWINCH},
                                fds |-> p.fds \cup {sigfd}],
                         ts |-> id]

\* lxc_console_sigwinch_fini(ts)
lxc_console_sigwinch_fini(p, id) ==
  [ttys |-> ListDel(p.ttys, id),
   heap |-> [p.heap EXCEPT ![id] = NoTs],
   mask |-> p.heap[id].oldmask,
   fds |-> IF p.heap[id].sigfd >= 0 THEN Close(p.fds, p.heap[id].sigfd) ELSE p.fds]

\* ------------------------------------------------------------ the console
\* The supervisor state the console functions act on.
St == [pty_info |-> pty_info, console |-> console, p |-> Proc, descr |-> descr]

\* openpty(&master, &slave, ...): two new descriptors.
OpenptyMaster(S) == NewFd(S)

OpenptySlave(S) == NewFd(S \cup {NewFd(S)})

\* lxc_console_mainloop_add_peer(console); add_peer / add_sig tell whether
\* lxc_mainloop_add_handler succeeds (a failure is only warned about).
lxc_console_mainloop_add_peer(st, add_peer, add_sig) ==
  LET d1 == IF st.console.peer >= 0 /\ add_peer
            THEN st.descr \cup {st.console.peer} ELSE st.descr
      d2 == IF st.console.tty_state # 0 /\ add_sig
            THEN d1 \cup {st.p.heap[st.console.tty_state].sigfd} ELSE d1
  IN [st EXCEPT !.descr = d2]

\* lxc_console_peer_proxy_free(console)
lxc_console_peer_proxy_free(st) ==
  LET p1 == IF st.console.tty_state # 0
            THEN lxc_console_sigwinch_fini(st.p, st.console.tty_state) ELSE st.p
      f2 == Close(Close(p1.fds, st.console.peerpty.master), st.console.peerpty.slave)
  IN [st EXCEPT !.p = [p1 EXCEPT !.fds = f2],
                !.console = [st.console EXCEPT !.tty_state = 0,
                                               !.peerpty = [master |-> -1, slave |-> -1, busy |-> -1],
                                               !.peer = -1]]

\* The up-front rejections of lxc_console_peer_proxy_alloc.
ProxyRejectedNoTracker(c) ==
  \/ c.master < 0
  \/ c.peerpty.busy # -1 \/ c.peer # -1

ProxyRejected(c) ==
  \/ c.master < 0
  \/ c.peerpty.busy # -1 \/ c.peer # -1
  \/ c.tty_state # 0

\* lxc_console_peer_proxy_alloc up to its process_unlock(): the up-front rejections,
\* then openpty under the process lock (env.openpty is its outcome). done tells
\* that the function has returned (ret); otherwise it goes on with the lock released.
ProxyAllocLocked(st, env) ==
  IF ProxyRejected(st.console) THEN [st |-> st, done |-> TRUE, ret |-> -1]
  ELSE IF ~env.openpty THEN [st |-> st, done |-> TRUE, ret |-> -1]
  ELSE
    LET m == OpenptyMaster(st.p.fds)
        s == OpenptySlave(st.p.fds)
    IN [st |-> [st EXCEPT !.p.fds = st.p.fds \cup {m, s},
                          !.console.peerpty.master = m,
                          !.console.peerpty.slave = s],
        done |-> FALSE, ret |-> 0]

\* lxc_console_peer_proxy_alloc after its process_unlock(), run without the lock:
\* setup_tios, lxc_console_sigwinch_init and the handler registrations, whose
\* outcomes env gives.
ProxyAllocUnlocked(st1, sockfd, env) ==
  LET sw == lxc_console_sigwinch_init(st1.p, st1.console.peerpty.master,
                                      st1.console.master, env.sw)
  IN IF ~env.tios THEN [st |-> lxc_console_peer_proxy_free(st1), ret |-> -1]
     ELSE IF sw.ts = 0
          THEN [st |-> lxc_console_peer_proxy_free([st1 EXCEPT !.p = sw.p]), ret |-> -1]
     ELSE [st |-> lxc_console_mainloop_add_peer(
                     [st1 EXCEPT !.p = sw.p,
                                 !.console.tty_state = sw.ts,
                                 !.console.peer = st1.console.peerpty.slave,
                                 !.console.peerpty.busy = sockfd],
                     env.add_peer, env.add_sig),
           ret |-> 0]

\* lxc_console_peer_proxy_alloc(console, sockfd), from its entry to its return; env
\* gives the outcome of openpty, setup_tios, lxc_console_sigwinch_init and the
\* handler registrations.
lxc_console_peer_proxy_alloc(st, sockfd, env) ==
  LET a == ProxyAllocLocked(st, env)
  IN IF a.done THEN [st |-> a.st, ret |-> a.ret]
     ELSE ProxyAllocUnlocked(a.st, sockfd, env)

\* ---------------------------------------------------------- the allocator
\* tty_info->pty_info[ttynum - 1].busy, as a C truth value
TtyBusyNever(info, ttynum) == FALSE

TtyBusy(info, ttynum) == info[ttynum].busy # 0

\* for (ttynum = 1; ttynum <= nbtty && pty_info[ttynum - 1].busy; ttynum++);
NextAvailableLast(info, n) ==
  IF \E k \in 1..n : ~TtyBusy(info, k)
  THEN CHOOSE k \in 1..n : ~TtyBusy(info, k) /\ \A j \in (k + 1)..n : TtyBusy(info, j)
  ELSE n + 1

NextAvailableTty(info, n) ==
  CHOOSE k \in 1..(n + 1) : (k > n \/ ~TtyBusy(info, k)) /\ \A j \in 1..(k - 1) : TtyBusy(info, j)

\* out_tty: tty_info->pty_info[ttynum - 1].busy = sockfd;
MarkBusyAll(info, ttynum, sockfd) ==
  [i \in DOMAIN info |-> IF i = ttynum \/ info[i].busy = 0
                         THEN [info[i] EXCEPT !.busy = sockfd] ELSE info[i]]

MarkBusy(info, ttynum, sockfd) == [info EXCEPT ![ttynum].busy = sockfd]

\* lxc_console_allocate(conf, sockfd, ttyreq): the new state, the returned master
\* and the caller's *ttyreq after the call.
lxc_console_allocate(st, sockfd, ttyreq, env) ==
  LET n == Len(st.pty_info) IN
  IF ttyreq = 0 THEN
    LET r == lxc_console_peer_proxy_alloc(st, sockfd, env)
    IN IF r.ret < 0 THEN [st |-> r.st, ret |-> -1, ttyreq |-> ttyreq]
       ELSE [st |-> r.st, ret |-> r.st.console.peerpty.master, ttyreq |-> ttyreq]
  ELSE IF ttyreq > 0 THEN
    IF ttyreq > n THEN [st |-> st, ret |-> -1, ttyreq |-> ttyreq]
    ELSE IF TtyBusy(st.pty_info, ttyreq) THEN [st |-> st, ret |-> -1, ttyreq |-> ttyreq]
    ELSE [st |-> [st EXCEPT !.pty_info = MarkBusy(st.pty_info, ttyreq, sockfd)],
          ret |-> st.pty_info[ttyreq].master, ttyreq |-> ttyreq]
  ELSE
    LET ttynum == NextAvailableTty(st.pty_info, n)
    IN IF ttynum > n THEN [st |-> st, ret |-> -1, ttyreq |-> ttyreq]
       ELSE [st |-> [st EXCEPT !.pty_info = MarkBusy(st.pty_info, ttynum, sockfd)],
             ret |-> st.pty_info[ttynum].master, ttyreq |-> ttynum]

\* for (i = 0; i < nbtty; i++) if (pty_info[i].busy == fd) pty_info[i].busy = 0;
FreeTtysAll(info, fd) == [i \in DOMAIN info |-> [info[i] EXCEPT !.busy = 0]]

FreeTtysFirst(info, fd) ==
  [i \in DOMAIN info |->
     IF info[i].busy = fd /\ \A j \in 1..(i - 1) : info[j].busy # fd
     THEN [info[i] EXCEPT !.busy = 0] ELSE info[i]]

FreeTtys(info, fd) ==
  [i \in DOMAIN info |-> IF info[i].busy = fd THEN [info[i] EXCEPT !.busy = 0] ELSE info[i]]

\* lxc_console_free(conf, fd)
lxc_console_free(st, fd) ==
  LET st1 == [st EXCEPT !.pty_info = FreeTtys(st.pty_info, fd)]
  IN IF st1.console.peerpty.busy = fd
     THEN lxc_console_peer_proxy_free(
            [st1 EXCEPT !.descr = st1.descr \ {st1.console.peerpty.slave}])
     ELSE st1

\* ------------------------------------------------- console creation, deletion
PeerOutcomes == {"nopath", "open_fail", "notatty", "nomem_tios", "tios_fail", "ok"}

\* lxc_console_peer_default(console); o is the outcome of its system calls
\* (with console.path unset, "nopath" is /dev/tty not being there) and sw that
\* of lxc_console_sigwinch_init.
lxc_console_peer_default(st, path, o, sw) ==
  IF o = "nopath" /\ path = "null" THEN st
  ELSE IF o \in {"open_fail", "nopath"} THEN [st EXCEPT !.console.peer = -1]
  ELSE
    LET fd == NewFd(st.p.fds)
        opened == [st EXCEPT !.p.fds = st.p.fds \cup {fd}, !.console.peer = fd]
        err1(x) == [x EXCEPT !.p.fds = Close(x.p.fds, x.console.peer), !.console.peer = -1]
    IN IF o = "notatty" THEN err1(opened)
       ELSE
         LET r == lxc_console_sigwinch_init(opened.p, fd, opened.console.master, sw)
             tracked == [opened EXCEPT !.p = r.p, !.console.tty_state = r.ts]
         IN CASE o = "nomem_tios" -> err1(tracked)
              [] o = "tios_fail" -> err1([tracked EXCEPT !.console.tios = FALSE])
              [] OTHER -> [tracked EXCEPT !.console.tios = TRUE]

\* lxc_console_delete(console)
lxc_console_delete(st) ==
  LET c == st.console
      f1 == Close(Close(Close(st.p.fds, c.peer), c.master), c.slave)
      f2 == IF c.log_fd >= 0 THEN Close(f1, c.log_fd) ELSE f1
  IN [st EXCEPT !.p.fds = f2,
                !.console = [c EXCEPT !.tios = FALSE, !.peer = -1, !.master = -1,
                                      !.slave = -1, !.log_fd = -1]]

\* lxc_console_create up to its process_unlock(): the cases without a console, then
\* openpty under the process lock (env.openpty is its outcome). done tells that the
\* function has returned (ret); otherwise it goes on with the lock released.
CreateLocked(st, cf, env) ==
  IF cf.is_execute \/ ~cf.rootfs \/ cf.path = "none" THEN [st |-> st, done |-> TRUE, ret |-> 0]
  ELSE IF ~env.openpty THEN [st |-> st, done |-> TRUE, ret |-> -1]
  ELSE
    LET m == OpenptyMaster(st.p.fds)
        s == OpenptySlave(st.p.fds)
    IN [st |-> [st EXCEPT !.p.fds = st.p.fds \cup {m, s},
                          !.console.master = m, !.console.slave = s],
        done |-> FALSE, ret |-> 0]

\* lxc_console_create after its process_unlock(), run without the lock: the two
\* fcntl calls, lxc_console_peer_default and the opening of the log, whose outcomes
\* env gives.
CreateUnlocked(st1, cf, env) ==
  IF ~env.fcntl THEN [st |-> lxc_console_delete(st1), ret |-> -1]
  ELSE
    LET st2 == lxc_console_peer_default(st1, cf.path, env.peer, env.sw)
    IN IF ~cf.log_path THEN [st |-> st2, ret |-> 0]
       ELSE IF ~env.log
            THEN [st |-> lxc_console_delete([st2 EXCEPT !.console.log_fd = -1]), ret |-> -1]
       ELSE [st |-> [st2 EXCEPT !.p.fds = st2.p.fds \cup {NewFd(st2.p.fds)},
                                !.console.log_fd = NewFd(st2.p.fds)],
             ret |-> 0]

\* lxc_console_create(conf), from its entry to its return; env gives the outcome of
\* openpty, of the two fcntl calls, of lxc_console_peer_default and of opening the log.
lxc_console_create(st, cf, env) ==
  LET a == CreateLocked(st, cf, env)
  IN IF a.done THEN [st |-> a.st, ret |-> a.ret]
     ELSE CreateUnlocked(a.st, cf, env)

\* lxc_console_mainloop_add(descr, handler); add_master, add_peer, add_sig tell
\* whether lxc_mainloop_add_handler succeeds.
lxc_console_mainloop_add(st, cf, add_master, add_peer, add_sig) ==
  IF cf.is_execute \/ ~cf.rootfs \/ st.console.master < 0 THEN [st |-> st, ret |-> 0]
  ELSE IF ~add_master THEN [st |-> st, ret |-> -1]
  ELSE [st |-> lxc_console_mainloop_add_peer(
                 [st EXCEPT !.descr = st.descr \cup {st.console.master}], add_peer, add_sig),
        ret |-> 0]

\* ------------------------------------------------ the close() calls made
\* The descriptors lxc_console_peer_proxy_free calls close() on, in order: the
\* tracker's signal descriptor (in lxc_console_sigwinch_fini), the proxy pty's.
ClosesOfProxyFree(st) ==
  (IF st.console.tty_state # 0 /\ st.p.heap[st.console.tty_state].sigfd >= 0
   THEN <<st.p.heap[st.console.tty_state].sigfd>> ELSE << >>)
  \o <<st.console.peerpty.master, st.console.peerpty.slave>>

\* The descriptors lxc_console_free(conf, fd) calls close() on.
ClosesOfFree(st, fd) ==
  IF st.console.peerpty.busy = fd THEN ClosesOfProxyFree(st) ELSE << >>

\* The descriptors lxc_console_delete calls close() on.
ClosesOfDelete(st) ==
  <<st.console.peer, st.console.master, st.console.slave>>
  \o (IF st.console.log_fd >= 0 THEN <<st.console.log_fd>> ELSE << >>)

\* Of the close() calls cs made in order with the descriptors S open: the calls on a
\* descriptor number that is not open (close(-1) is not a call on a descriptor).
RECURSIVE DoubleCloses(_, _)
DoubleCloses(S, cs) ==
  IF cs = << >> THEN {}
  ELSE (IF Head(cs) >= 0 /\ Head(cs) \notin S THEN {Head(cs)} ELSE {})
       \cup DoubleCloses(Close(S, Head(cs)), Tail(cs))

\* ------------------------------------------------------------------- Init
\* The configurations a container is started with.
Confs ==
  {[is_execute |-> TRUE, rootfs |-> TRUE, path |-> "null", log_path |-> FALSE],
   [is_execute |-> FALSE, rootfs |-> FALSE, path |-> "null", log_path |-> FALSE]}
  \cup [is_execute : {FALSE}, rootfs : {TRUE}, path : {"none", "null", "path"},
        log_path : BOOLEAN]

\* Descriptors of the tty slots, created up front (after stdio and the control sockets).
TtyMaster(i) == 2 + MaxClients + 2 * i - 1

TtySlave(i) == 2 + MaxClients + 2 * i

NoCall == [op |-> "none", sockfd |-> 0, ttyreq |-> 0, ret |-> 0, out |-> 0]

\* No pump handler has run. Of a handler call: h the handler, r what read returned,
\* c the byte in the buffer (stdin pump), w what write returned (0 with no write
\* attempted by the stdin pump), ret the handler's return value.
NoHcall == [h |-> "none", r |-> 0, c |-> 0, w |-> 0, ret |-> 0]

\* No console pump call was made.
\* Of a pump call: fd the descriptor that was readable, r what read returned, master,
\* peer and log_fd the console's fields at the call, writes the write() calls made in
\* order, w the handler's variable w at its end, warn whether the short-write
\* warning was issued, ret the handler's return value.
NoPcall == [fd |-> -1, r |-> 0, master |-> -1, peer |-> -1, log_fd |-> -1, writes |-> << >>,
            w |-> 0, warn |-> FALSE, ret |-> 0]

\* No tracker call was made.
NoTcall == [op |-> "none", ts |-> 0, o |-> "none"]

\* The history of the pump and of the tracker calls, empty.
InitHistVars ==
  /\ pcall = NoPcall
  /\ dblclose = {}
  /\ tcall = NoTcall
  /\ premask = [i \in TsIds |-> {}]
  /\ mask0 = {}

\* The client process before lxc_console is called.
InitAttachVars ==
  /\ at_pc = "entry"
  /\ at_ret = 0
  /\ at_arg = [escape |-> 0, setup |-> "none"]
  /\ oldtios = "none"
  /\ at_ts = 0
  /\ at_fd = [ttyfd |-> -1, masterfd |-> -1]
  /\ stdin_tios = "cooked"
  /\ unwind = << >>
  /\ rd = << >>
  /\ wr = << >>
  /\ hcall = NoHcall

\* The supervisor after the configuration is loaded and the ttys are created:
\* every tty slot free, the console not yet created.
Init ==
  /\ phase = "conf"
  /\ conf \in Confs
  /\ nbtty \in 0..MaxTty
  /\ pty_info = [i \in 1..nbtty |-> [master |-> TtyMaster(i), busy |-> 0]]
  /\ console = [master |-> -1, slave |-> -1, peer |-> -1, log_fd |-> -1, tios |-> FALSE,
                tty_state |-> 0, peerpty |-> [master |-> -1, slave |-> -1, busy |-> -1]]
  /\ lxc_ttys = << >>
  /\ ts_heap = [i \in TsIds |-> NoTs]
  /\ sigmask = {}
  /\ fds = 0..(2 + MaxClients) \cup {TtyMaster(i) : i \in 1..nbtty}
                               \cup {TtySlave(i) : i \in 1..nbtty}
  /\ descr = {}
  /\ call = NoCall
  /\ holder = [s \in 0..nbtty |-> {}]
  /\ InitAttachVars
  /\ InitHistVars

\* ---------------------------------------------------------------- actions
\* Write a supervisor state back to the variables.
SetSt(st) ==
  /\ pty_info' = st.pty_info
  /\ console' = st.console
  /\ lxc_ttys' = st.p.ttys
  /\ ts_heap' = st.p.heap
  /\ sigmask' = st.p.mask
  /\ fds' = st.p.fds
  /\ descr' = st.descr

CreateEnvs == [openpty : BOOLEAN, fcntl : BOOLEAN, peer : PeerOutcomes, sw : SwOutcomes,
               log : BOOLEAN]

\* Every call of lxc_console_create succeeding.
OkCreateEnv == [openpty |-> TRUE, fcntl |-> TRUE, peer |-> "ok", sw |-> "ok", log |-> TRUE]

\* Container start-up calls lxc_console_create, which runs up to its
\* process_unlock(): it returns there (no console wanted, or openpty failed; a
\* failure aborts the start) or goes on without the lock.
Create ==
  /\ phase = "conf"
  /\ \E env \in {e \in CreateEnvs : e = [OkCreateEnv EXCEPT !.openpty = e.openpty]} :
       LET a == CreateLocked(St, conf, env)
       IN /\ SetSt(a.st)
          /\ phase' = IF ~a.done THEN "creating"
                      ELSE IF a.ret = 0 THEN "created" ELSE "failed"
  /\ UNCHANGED <<conf, nbtty, call, holder>>
  /\ UNCHANGED atVars
  /\ UNCHANGED <<pumpVars, trackVars>>

\* lxc_console_create goes on after its process_unlock() and returns. (The supervisor
\* is single-threaded: nothing else of it runs while the call is under way.)
CreateFinish ==
  /\ phase = "creating"
  /\ \E env \in {e \in CreateEnvs : e.openpty} :
       LET r == CreateUnlocked(St, conf, env)
       IN /\ SetSt(r.st)
          /\ phase' = IF r.ret = 0 THEN "created" ELSE "failed"
  /\ UNCHANGED <<conf, nbtty, call, holder>>
  /\ UNCHANGED atVars
  /\ UNCHANGED <<pumpVars, trackVars>>

\* The supervisor's loop is set up: lxc_console_mainloop_add.
MainloopAdd ==
  /\ phase = "created"
  /\ \E am \in BOOLEAN, ap \in BOOLEAN, as \in BOOLEAN :
       LET r == lxc_console_mainloop_add(St, conf, am, ap, as)
       IN /\ SetSt(r.st)
          /\ phase' = IF r.ret = 0 THEN "running" ELSE "failed"
  /\ UNCHANGED <<conf, nbtty, call, holder>>
  /\ UNCHANGED atVars
  /\ UNCHANGED <<pumpVars, trackVars>>

\* The outcomes of the system calls of a console request: the first call that
\* fails, or which handler registrations succeed.
AllocEnvs ==
  {[openpty |-> FALSE, tios |-> TRUE, sw |-> "ok", add_peer |-> TRUE, add_sig |-> TRUE],
   [openpty |-> TRUE, tios |-> FALSE, sw |-> "ok", add_peer |-> TRUE, add_sig |-> TRUE]}
  \cup [openpty : {TRUE}, tios : {TRUE}, sw : SwOutcomes \ {"ok"}, add_peer : {TRUE},
        add_sig : {TRUE}]
  \cup [openpty : {TRUE}, tios : {TRUE}, sw : {"ok"}, add_peer : BOOLEAN, add_sig : BOOLEAN]

\* A tty request makes no system call.
OkEnv == [openpty |-> TRUE, tios |-> TRUE, sw |-> "ok", add_peer |-> TRUE, add_sig |-> TRUE]

\* What a client may put in *ttyreq: any tty, the console, a tty index (one of
\* them out of range).
TtyReqs == -1..(nbtty + 1)

\* The last call: for allocate, ret is the returned master and out the caller's
\* *ttyreq after the call; for free (which returns nothing), ret tells whether the
\* console proxy was released and out how many tty slots were.
\* The slot (0 = console) a successful allocate handed out.
SlotOf(r) == r.ttyreq

\* A console command from the client on control socket sockfd, asking for one of
\* reqs: lxc_console_allocate. A tty request runs to its return; a console request
\* runs up to the process_unlock() of lxc_console_peer_proxy_alloc, where it has
\* returned (rejected, or openpty failed) or goes on without the lock.
AllocateOf(reqs) ==
  /\ phase = "running"
  /\ \E sockfd \in ClientFds, ttyreq \in reqs :
     \E env \in (IF ttyreq = 0 THEN {OkEnv, [OkEnv EXCEPT !.openpty = FALSE]} ELSE {OkEnv}) :
       IF ttyreq = 0 /\ ~ProxyAllocLocked(St, env).done
       THEN /\ SetSt(ProxyAllocLocked(St, env).st)
            /\ call' = [op |-> "allocating", sockfd |-> sockfd, ttyreq |-> ttyreq,
                        ret |-> 0, out |-> ttyreq]
            /\ holder' = holder
            /\ phase' = "allocating"
       ELSE LET r == lxc_console_allocate(St, sockfd, ttyreq, env)
            IN /\ SetSt(r.st)
               /\ call' = [op |-> "allocate", sockfd |-> sockfd, ttyreq |-> ttyreq,
                           ret |-> r.ret, out |-> r.ttyreq]
               /\ holder' = IF r.ret < 0 THEN holder
                            ELSE [holder EXCEPT ![SlotOf(r)] = @ \cup {sockfd}]
               /\ phase' = phase
  /\ UNCHANGED <<conf, nbtty>>
  /\ UNCHANGED atVars
  /\ UNCHANGED <<pumpVars, trackVars>>

\* The console request under way goes on after the process_unlock() of
\* lxc_console_peer_proxy_alloc, and lxc_console_allocate returns: the proxy master,
\* or -1. (The supervisor is single-threaded: nothing else of it runs meanwhile.)
AllocateFinish ==
  /\ phase = "allocating"
  /\ \E env \in {e \in AllocEnvs : e.openpty} :
       LET r == ProxyAllocUnlocked(St, call.sockfd, env)
           ret == IF r.ret < 0 THEN -1 ELSE r.st.console.peerpty.master
       IN /\ SetSt(r.st)
          /\ call' = [op |-> "allocate", sockfd |-> call.sockfd, ttyreq |-> call.ttyreq,
                      ret |-> ret, out |-> call.ttyreq]
          /\ holder' = IF ret < 0 THEN holder
                       ELSE [holder EXCEPT ![0] = @ \cup {call.sockfd}]
  /\ phase' = "running"
  /\ UNCHANGED <<conf, nbtty>>
  /\ UNCHANGED atVars
  /\ UNCHANGED <<pumpVars, trackVars>>

Allocate == AllocateOf(TtyReqs)

\* The client on control socket fd hung up: lxc_console_free.
Free ==
  /\ phase = "running"
  /\ \E fd \in ClientFds :
       /\ SetSt(lxc_console_free(St, fd))
       /\ call' = [op |-> "free", sockfd |-> fd, ttyreq |-> 0,
                   ret |-> IF console.peerpty.busy = fd THEN 1 ELSE 0,
                   out |-> Cardinality({i \in 1..nbtty : pty_info[i].busy = fd})]
       /\ holder' = [s \in DOMAIN holder |-> holder[s] \ {fd}]
       /\ dblclose' = dblclose \cup DoubleCloses(fds, ClosesOfFree(St, fd))
  /\ UNCHANGED <<phase, conf, nbtty>>
  /\ UNCHANGED atVars
  /\ UNCHANGED <<pcall, trackVars>>

\* Container teardown, with the supervisor's loop running or ended by a handler:
\* lxc_console_delete.
Delete ==
  /\ phase \in {"running", "stopped"}
  /\ SetSt(lxc_console_delete(St))
  /\ dblclose' = dblclose \cup DoubleCloses(fds, ClosesOfDelete(St))
  /\ phase' = "deleted"
  /\ UNCHANGED <<conf, nbtty, call, holder>>
  /\ UNCHANGED atVars
  /\ UNCHANGED <<pcall, trackVars>>

Next == Create \/ CreateFinish \/ MainloopAdd \/ Allocate \/ AllocateFinish \/ Free \/ Delete

Spec == Init /\ [][Next]_vars

\* ====================================================== the attach driver
\* setup_tios(fd, &oldtios) on a terminal in mode tios: the return value, the
\* terminal's mode afterwards and the saved termios.
TiosOutcomes == {"notatty", "getattr_fail", "setattr_fail", "ok"}

setup_tios(tios, old, o) ==
  CASE o = "notatty" -> [ret |-> -1, tios |-> tios, old |-> old]
    [] o = "getattr_fail" -> [ret |-> -1, tios |-> tios, old |-> old]
    [] o = "setattr_fail" -> [ret |-> -1, tios |-> tios, old |-> tios]
    [] OTHER -> [ret |-> 0, tios |-> "raw", old |-> tios]

\* The exit path of lxc_console, label by label. x is [p, ts, fd, tios, old, unwind].
\* err1: tcsetattr(stdinfd, TCSAFLUSH, &oldtios);
Err1NoRestore(x) == x

Err1(x) == [x EXCEPT !.tios = x.old, !.unwind = Append(x.unwind, "tcsetattr")]

\* err2: close(masterfd); close(ttyfd);
Err2(x) ==
  Err1([x EXCEPT !.p.fds = Close(Close(x.p.fds, x.fd.masterfd), x.fd.ttyfd),
                 !.unwind = x.unwind \o <<"close_masterfd", "close_ttyfd">>])

\* err3: lxc_console_sigwinch_fini(ts);
Err3(x) ==
  Err2([x EXCEPT !.p = lxc_console_sigwinch_fini(x.p, x.ts), !.ts = 0,
                 !.unwind = Append(x.unwind, "sigwinch_fini")])

\* err4: lxc_mainloop_close(&descr);
Err4TrackerFirst(x) ==
  Err2([x EXCEPT !.p = lxc_console_sigwinch_fini(x.p, x.ts), !.ts = 0,
                 !.unwind = x.unwind \o <<"sigwinch_fini", "mainloop_close">>])

Err4(x) == Err3([x EXCEPT !.unwind = Append(x.unwind, "mainloop_close")])

SetupOutcomes == {"notatty", "tios_fail", "cmd_fail", "nomem", "block_fail", "sigfd_fail",
                  "loop_open_fail", "add_sigfd_fail", "add_stdin_fail", "add_master_fail", "ok"}

\* lxc_console(c, ttynum, stdinfd, ...) from its entry to the call of lxc_mainloop, or
\* to its return when a step of the setup fails (outcome o): [pc, ret, x].
\* lxc_cmd_console (the command channel) connects a socket and receives the master.
lxc_console_setup(p, tios, escape, o) ==
  LET x0 == [p |-> p, ts |-> 0, fd |-> [ttyfd |-> -1, masterfd |-> -1], tios |-> tios,
             old |-> "none", unwind |-> << >>]
      t == setup_tios(tios, "none", IF o = "tios_fail" THEN "setattr_fail" ELSE "ok")
      x1 == [x0 EXCEPT !.tios = t.tios, !.old = t.old]
      ttyfd == NewFd(p.fds)
      masterfd == NewFd(p.fds \cup {ttyfd})
      x2 == [x1 EXCEPT !.p.fds = p.fds \cup {ttyfd, masterfd},
                       !.fd = [ttyfd |-> ttyfd, masterfd |-> masterfd]]
      sw == lxc_console_sigwinch_init(x2.p, 0, masterfd,
                                      IF o \in SwOutcomes THEN o ELSE "ok")
      x3 == [x2 EXCEPT !.p = [sw.p EXCEPT !.heap[sw.ts].escape = escape], !.ts = sw.ts]
  IN CASE o = "notatty" -> [pc |-> "returned", ret |-> -1, x |-> x0]
       [] o = "tios_fail" -> [pc |-> "returned", ret |-> -1, x |-> x1]
       [] o = "cmd_fail" -> [pc |-> "returned", ret |-> -1, x |-> Err1(x1)]
       [] o \in {"nomem", "block_fail", "sigfd_fail"} ->
            [pc |-> "returned", ret |-> -1, x |-> Err2([x2 EXCEPT !.p = sw.p])]
       [] o = "loop_open_fail" -> [pc |-> "returned", ret |-> -1, x |-> Err3(x3)]
       [] o \in {"add_sigfd_fail", "add_stdin_fail", "add_master_fail"} ->
            [pc |-> "returned", ret |-> -1, x |-> Err4(x3)]
       [] OTHER -> [pc |-> "loop", ret |-> 0, x |-> x3]

\* lxc_mainloop after a handler returned hret: a positive value ends the loop, which
\* then returns 0; otherwise the loop goes on.
MainloopExits(hret) == hret > 0

\* What lxc_mainloop returns when a handler's positive return value ended it.
MainloopRet(hret) == 0

\* The rest of lxc_console once lxc_mainloop has returned ret.
lxc_console_finish(x, ret) ==
  [pc |-> "returned", ret |-> IF ret # 0 THEN ret ELSE 0, x |-> Err4(x)]

Eof == -1

\* lxc_console_cb_tty_stdin(fd, events, ts, descr): r is what read returned (-1, 0
\* or 1), c the byte read (with r = 0 the buffer's uninitialized content), wok
\* whether the write succeeds: the tracker, the bytes written and the return value.
StdinKeepsEscape(ts, r, c, wok) ==
  IF r < 0 THEN [ts |-> ts, wrote |-> << >>, w |-> 0, ret |-> 1]
  ELSE IF c = ts.escape /\ ts.saw_escape = 0
       THEN [ts |-> [ts EXCEPT !.saw_escape = 1], wrote |-> << >>, w |-> 0, ret |-> 0]
  ELSE IF c = CharQ /\ ts.saw_escape = 1
       THEN [ts |-> ts, wrote |-> << >>, w |-> 0, ret |-> 1]
  ELSE IF ~wok THEN [ts |-> ts, wrote |-> << >>, w |-> -1, ret |-> 1]
  ELSE [ts |-> ts, wrote |-> <<c>>, w |-> 1, ret |-> 0]

lxc_console_cb_tty_stdin(ts, r, c, wok) ==
  IF r < 0 THEN [ts |-> ts, wrote |-> << >>, w |-> 0, ret |-> 1]
  ELSE IF c = ts.escape /\ ts.saw_escape = 0
       THEN [ts |-> [ts EXCEPT !.saw_escape = 1], wrote |-> << >>, w |-> 0, ret |-> 0]
  ELSE IF c = CharQ /\ ts.saw_escape = 1
       THEN [ts |-> ts, wrote |-> << >>, w |-> 0, ret |-> 1]
  ELSE IF ~wok
       THEN [ts |-> [ts EXCEPT !.saw_escape = 0], wrote |-> << >>, w |-> -1, ret |-> 1]
  ELSE [ts |-> [ts EXCEPT !.saw_escape = 0], wrote |-> <<c>>, w |-> 1, ret |-> 0]

\* lxc_console_cb_tty_master(fd, events, ts, descr): r is what read returned, w what
\* write(ts->stdoutfd, buf, r) returned: the return value.
lxc_console_cb_tty_master(r, w) ==
  IF r < 0 THEN 1
  ELSE IF w < 0 \/ w # r THEN 1
  ELSE 0

\* sizeof(struct signalfd_siginfo)
SizeofSiginfo == 128

\* a < b as C evaluates it for an ssize_t a and a size_t b: a is converted to
\* unsigned, so a negative a (read's -1) becomes a value above every object size.
LessAsSizeT(a, b) == a >= 0 /\ a < b

\* lxc_console_cb_sigwinch_fd(fd, events, ts, descr): n is what
\* read(fd, &siginfo, sizeof(siginfo)) returned. Only a short read is reported; after
\* a failed read (-1) the handler goes on to lxc_console_winch and returns 0.
lxc_console_cb_sigwinch_fd(n) == IF LessAsSizeT(n, SizeofSiginfo) THEN -1 ELSE 0

\* The client process: nothing of the supervisor runs in it.
InitAttach ==
  /\ phase = "client"
  /\ conf = [is_execute |-> FALSE, rootfs |-> TRUE, path |-> "null", log_path |-> FALSE]
  /\ nbtty = 0
  /\ pty_info = << >>
  /\ console = [master |-> -1, slave |-> -1, peer |-> -1, log_fd |-> -1, tios |-> FALSE,
                tty_state |-> 0, peerpty |-> [master |-> -1, slave |-> -1, busy |-> -1]]
  /\ lxc_ttys = << >>
  /\ ts_heap = [i \in TsIds |-> NoTs]
  /\ sigmask = {}
  /\ fds = {0, 1, 2}
  /\ descr = {}
  /\ call = NoCall
  /\ holder = [s \in 0..0 |-> {}]
  /\ InitAttachVars
  /\ InitHistVars

\* Write the attach driver's state back to the variables.
SetX(x) ==
  /\ lxc_ttys' = x.p.ttys
  /\ ts_heap' = x.p.heap
  /\ sigmask' = x.p.mask
  /\ fds' = x.p.fds
  /\ at_ts' = x.ts
  /\ at_fd' = x.fd
  /\ stdin_tios' = x.tios
  /\ oldtios' = x.old
  /\ unwind' = x.unwind

X == [p |-> Proc, ts |-> at_ts, fd |-> at_fd, tios |-> stdin_tios, old |-> oldtios,
      unwind |-> unwind]

\* lxc_console_getfd(c, &ttynum, &masterfd): lxc_cmd_console connects a socket to the
\* supervisor and receives the master; ok tells whether the command succeeds. The
\* new descriptor table, the returned ttyfd and the caller's masterfd (-1: not set).
lxc_console_getfd(p, ok) ==
  IF ~ok THEN [p |-> p, ret |-> -1, masterfd |-> -1]
  ELSE LET ttyfd == NewFd(p.fds)
           masterfd == NewFd(p.fds \cup {ttyfd})
       IN [p |-> [p EXCEPT !.fds = p.fds \cup {ttyfd, masterfd}],
           ret |-> ttyfd, masterfd |-> masterfd]

\* The client gets a console's descriptors for its own use: lxc_console_getfd. The
\* terminal, the trackers and the signal mask are not touched.
ConsoleGetfd ==
  /\ at_pc = "entry"
  /\ Cardinality(fds) < 3 + 2 * MaxGetfd
  /\ \E ok \in BOOLEAN :
       LET r == lxc_console_getfd(Proc, ok)
       IN /\ fds' = r.p.fds
          /\ call' = [op |-> "getfd", sockfd |-> 0, ttyreq |-> 0, ret |-> r.ret,
                      out |-> r.masterfd]
  /\ UNCHANGED <<phase, conf, nbtty, pty_info, console, descr, holder>>
  /\ UNCHANGED <<lxc_ttys, ts_heap, sigmask>>
  /\ UNCHANGED atVars
  /\ UNCHANGED <<pumpVars, trackVars>>

\* lxc_console is called and sets the session up.
ConsoleSetup ==
  /\ at_pc = "entry"
  /\ \E escape \in Escapes, o \in SetupOutcomes :
       LET r == lxc_console_setup(Proc, stdin_tios, escape, o)
       IN /\ SetX(r.x)
          /\ at_pc' = r.pc
          /\ at_ret' = r.ret
          /\ at_arg' = [escape |-> escape, setup |-> o]
  /\ UNCHANGED <<rd, wr, hcall>>
  /\ UNCHANGED supVars
  /\ UNCHANGED <<pumpVars, trackVars>>

\* After a handler returned hret: the loop goes on, or lxc_console finishes.
AfterHandler(x, hret) ==
  IF MainloopExits(hret)
  THEN LET f == lxc_console_finish(x, MainloopRet(hret))
       IN SetX(f.x) /\ at_pc' = f.pc /\ at_ret' = f.ret
  ELSE SetX(x) /\ at_pc' = "loop" /\ at_ret' = at_ret

\* What read(stdinfd, &c, 1) may return: an error, end of file or a byte; stdin is a
\* terminal in raw mode, which is at end of file only once hung up, and then stays so.
StdinReads == IF rd # << >> /\ rd[Len(rd)] = Eof THEN {-1, 0} ELSE {-1, 0, 1}

\* stdin is readable: the loop calls lxc_console_cb_tty_stdin.
CbTtyStdin ==
  /\ at_pc = "loop"
  /\ Len(rd) < MaxInput
  /\ \E r \in StdinReads, c \in {at_arg.escape, CharQ, 120}, wok \in BOOLEAN :
       LET h == lxc_console_cb_tty_stdin(ts_heap[at_ts], r, c, wok)
       IN /\ rd' = IF r < 0 THEN rd ELSE Append(rd, IF r = 0 THEN Eof ELSE c)
          /\ wr' = wr \o h.wrote
          /\ hcall' = [h |-> "stdin", r |-> r, c |-> IF r < 0 THEN 0 ELSE c,
                       w |-> h.w, ret |-> h.ret]
          /\ AfterHandler([X EXCEPT !.p.heap[at_ts] = h.ts], h.ret)
  /\ UNCHANGED <<at_arg>>
  /\ UNCHANGED supVars
  /\ UNCHANGED <<pumpVars, trackVars>>

\* The master is readable: the loop calls lxc_console_cb_tty_master.
CbTtyMaster ==
  /\ at_pc = "loop"
  /\ \E r \in -1..MaxChunk :
       \E w \in (IF r < 0 THEN {0} ELSE -1..r) :
         LET hret == lxc_console_cb_tty_master(r, w)
         IN /\ hcall' = [h |-> "master", r |-> r, c |-> 0, w |-> w, ret |-> hret]
            /\ AfterHandler(X, hret)
  /\ UNCHANGED <<at_arg, rd, wr>>
  /\ UNCHANGED supVars
  /\ UNCHANGED <<pumpVars, trackVars>>

\* The signal descriptor is readable: the loop calls lxc_console_cb_sigwinch_fd.
CbSigwinchFd ==
  /\ at_pc = "loop"
  /\ \E n \in {-1, 0, SizeofSiginfo} :
       LET hret == lxc_console_cb_sigwinch_fd(n)
       IN /\ hcall' = [h |-> "sigwinch", r |-> n, c |-> 0, w |-> 0, ret |-> hret]
          /\ AfterHandler(X, hret)
  /\ UNCHANGED <<at_arg, rd, wr>>
  /\ UNCHANGED supVars
  /\ UNCHANGED <<pumpVars, trackVars>>

\* The loop's wait fails: lxc_mainloop returns -1.
MainloopError ==
  /\ at_pc = "loop"
  /\ LET f == lxc_console_finish(X, -1)
     IN SetX(f.x) /\ at_pc' = f.pc /\ at_ret' = f.ret
  /\ hcall' = [h |-> "epoll", r |-> 0, c |-> 0, w |-> 0, ret |-> 0]
  /\ UNCHANGED <<at_arg, rd, wr>>
  /\ UNCHANGED supVars
  /\ UNCHANGED <<pumpVars, trackVars>>

NextAttach == ConsoleGetfd \/ ConsoleSetup \/ CbTtyStdin \/ CbTtyMaster \/ CbSigwinchFd \/ MainloopError

SpecAttach == InitAttach /\ [][NextAttach]_vars

\* ====================================================== the console pump
\* What write(fd, buf, r) may return with the descriptors S open: an error, or the
\* number of bytes transferred; on a descriptor that is not open, an error.
WriteResults(S, fd, r) == IF r <= 0 THEN {r} ELSE IF fd \in S THEN -1..r ELSE {-1}

\* Bytes a write that returned w transferred.
Delivered(w) == IF w > 0 THEN w ELSE 0

\* A write() call of the pump: its target, the descriptor d, whether d is open, the
\* count n it is given and its result w.
WriteCall(st, to, d, n, w) == [to |-> to, fd |-> d, open |-> d \in st.p.fds, n |-> n, w |-> w]

\* lxc_console_cb_con(fd, events, console, descr): r is what read returned; wm, wl
\* and wp are what the writes to console->master, console->log_fd and console->peer
\* return if made.
CbConLogsWhatPeerTook(st, fd, r, wm, wl, wp) ==
  LET c == st.console
      none == [st |-> st, writes |-> << >>, w |-> r, warn |-> FALSE, closes |-> << >>,
               ret |-> 0]
  IN IF r < 0 THEN [none EXCEPT !.ret = 1]
     ELSE IF r = 0
          THEN [none EXCEPT !.st = [st EXCEPT !.descr = st.descr \ {fd},
                                              !.p.fds = Close(st.p.fds, fd)],
                            !.closes = <<fd>>]
     ELSE LET w1 == IF fd = c.peer THEN <<WriteCall(st, "master", c.master, r, wm)>> ELSE << >>
              w3 == IF fd = c.master /\ c.peer >= 0
                    THEN <<WriteCall(st, "peer", c.peer, r, wp)>> ELSE << >>
              took == IF w3 = << >> THEN r ELSE Delivered(wp)
              w2 == IF fd = c.master /\ c.log_fd >= 0
                    THEN <<WriteCall(st, "log", c.log_fd, took,
                                     IF wl > took THEN took ELSE wl)>>
                    ELSE << >>
              ws == w1 \o w3 \o w2
              w == IF ws = << >> THEN r ELSE ws[Len(ws)].w
          IN [none EXCEPT !.writes = ws, !.w = w, !.warn = (w # r)]

lxc_console_cb_con(st, fd, r, wm, wl, wp) ==
  LET c == st.console
      wrec(to, d, w) == WriteCall(st, to, d, r, w)
      none == [st |-> st, writes |-> << >>, w |-> r, warn |-> FALSE, closes |-> << >>,
               ret |-> 0]
  IN IF r < 0 THEN [none EXCEPT !.ret = 1]
     ELSE IF r = 0
          THEN [none EXCEPT !.st = [st EXCEPT !.descr = st.descr \ {fd},
                                              !.p.fds = Close(st.p.fds, fd)],
                            !.closes = <<fd>>]
     ELSE LET w1 == IF fd = c.peer THEN <<wrec("master", c.master, wm)>> ELSE << >>
              w2 == IF fd = c.master /\ c.log_fd >= 0
                    THEN <<wrec("log", c.log_fd, wl)>> ELSE << >>
              w3 == IF fd = c.master /\ c.peer >= 0
                    THEN <<wrec("peer", c.peer, wp)>> ELSE << >>
              ws == w1 \o w2 \o w3
              w == IF ws = << >> THEN r ELSE ws[Len(ws)].w
          IN [none EXCEPT !.writes = ws, !.w = w, !.warn = (w # r)]

\* A descriptor registered with lxc_console_cb_con is readable: the supervisor's loop
\* calls the pump. (Of the registered descriptors, the master and the peer are the
\* pump's; a closed descriptor raises no event.)
CbCon ==
  /\ phase = "running"
  /\ \E fd \in (descr \cap fds) \cap {console.master, console.peer} :
     \E r \in -1..MaxChunk :
     \E wm \in (IF fd = console.peer THEN WriteResults(fds, console.master, r) ELSE {-1}),
        wl \in (IF fd = console.master /\ console.log_fd >= 0
                THEN WriteResults(fds, console.log_fd, r) ELSE {-1}),
        wp \in (IF fd = console.master /\ console.peer >= 0
                THEN WriteResults(fds, console.peer, r) ELSE {-1}) :
       LET h == lxc_console_cb_con(St, fd, r, wm, wl, wp)
       IN /\ SetSt(h.st)
          /\ pcall' = [fd |-> fd, r |-> r, master |-> console.master,
                       peer |-> console.peer, log_fd |-> console.log_fd,
                       writes |-> h.writes, w |-> h.w, warn |-> h.warn, ret |-> h.ret]
          /\ dblclose' = dblclose \cup DoubleCloses(fds, h.closes)
          /\ phase' = IF MainloopExits(h.ret) THEN "stopped" ELSE phase
  /\ UNCHANGED <<conf, nbtty, call, holder>>
  /\ UNCHANGED atVars
  /\ UNCHANGED trackVars

\* The supervisor of a container without tty slots (the pump serves the console only).
InitPump == Init /\ nbtty = 0

\* A client asks for the console.
AllocateConsole == AllocateOf({0})

NextPump ==
  \/ Create \/ CreateFinish \/ MainloopAdd
  \/ AllocateConsole \/ AllocateFinish \/ Free \/ Delete \/ CbCon

SpecPump == InitPump /\ [][NextPump]_vars

\* ======================================= several trackers in one process
\* A process that holds several trackers at a time (lxc_ttys is the list of all the
\* trackers of the process: one per console or attach session it runs). Its mask
\* before the first tracker is any mask; descriptors 3 and 4 are two terminals the
\* window size is read from, 5 a pty master it is written to.
Signals == {SIGWINCH, "SIGINT"}

InitTrackers ==
  /\ phase = "api"
  /\ conf = [is_execute |-> FALSE, rootfs |-> TRUE, path |-> "null", log_path |-> FALSE]
  /\ nbtty = 0
  /\ pty_info = << >>
  /\ console = [master |-> -1, slave |-> -1, peer |-> -1, log_fd |-> -1, tios |-> FALSE,
                tty_state |-> 0, peerpty |-> [master |-> -1, slave |-> -1, busy |-> -1]]
  /\ lxc_ttys = << >>
  /\ ts_heap = [i \in TsIds |-> NoTs]
  /\ sigmask \in SUBSET Signals
  /\ mask0 = sigmask
  /\ fds = 0..5
  /\ descr = {}
  /\ call = NoCall
  /\ holder = [s \in 0..0 |-> {}]
  /\ InitAttachVars
  /\ pcall = NoPcall
  /\ dblclose = {}
  /\ tcall = NoTcall
  /\ premask = [i \in TsIds |-> {}]

\* Write the process state back to the variables.
SetProc(p) ==
  /\ lxc_ttys' = p.ttys
  /\ ts_heap' = p.heap
  /\ sigmask' = p.mask
  /\ fds' = p.fds

\* A tracker is created: lxc_console_sigwinch_init(srcfd, dstfd).
SigwinchInit ==
  /\ phase = "api"
  /\ \E srcfd \in {3, 4}, o \in SwOutcomes :
       LET r == lxc_console_sigwinch_init(Proc, srcfd, 5, o)
       IN /\ SetProc(r.p)
          /\ tcall' = [op |-> "init", ts |-> r.ts, o |-> o]
          /\ premask' = IF r.ts # 0 THEN [premask EXCEPT ![r.ts] = sigmask] ELSE premask
  /\ UNCHANGED <<mask0, pumpVars>>
  /\ UNCHANGED supVars
  /\ UNCHANGED atVars

\* A live tracker is torn down: lxc_console_sigwinch_fini(ts).
SigwinchFini ==
  /\ phase = "api"
  /\ \E id \in TsIds :
       /\ ts_heap[id].live
       /\ SetProc(lxc_console_sigwinch_fini(Proc, id))
       /\ tcall' = [op |-> "fini", ts |-> id, o |-> "ok"]
  /\ UNCHANGED <<premask, mask0, pumpVars>>
  /\ UNCHANGED supVars
  /\ UNCHANGED atVars

NextTrackers == SigwinchInit \/ SigwinchFini

SpecTrackers == InitTrackers /\ [][NextTrackers]_vars

\* ================================================================ claims
\* Steps that are a call of lxc_console_allocate / lxc_console_free.
AllocStep == call' # call /\ call'.op = "allocate"

FreeStep == call' # call /\ call'.op = "free"

allocVars == <<pty_info, console, lxc_ttys, ts_heap, sigmask, fds, descr>>

\* Number of slots (the tty slots and the console proxy) marked busy with fd.
SlotsOf(fd) ==
  Cardinality({i \in 1..nbtty : pty_info[i].busy = fd})
  + (IF console.peerpty.busy = fd THEN 1 ELSE 0)

\* C1: one active client per slot. A slot (tty, or the console proxy) that allocate
\* handed to a client is handed to no other client until free is called with the
\* first client's fd: the clients a slot was handed to and that have not been freed
\* since are at most one, and the slot's busy field is that client's fd (0 for a
\* tty, -1 for the console proxy, when there is none).
C1_OneClientPerSlot ==
  /\ \A s \in 1..nbtty :
       /\ Cardinality(holder[s]) <= 1
       /\ (holder[s] = {}) <=> (pty_info[s].busy = 0)
       /\ holder[s] # {} => holder[s] = {pty_info[s].busy}
  /\ Cardinality(holder[0]) <= 1
  /\ (holder[0] = {}) <=> (console.peerpty.busy = -1)
  /\ holder[0] # {} => holder[0] = {console.peerpty.busy}

\* A client asked for a tty that another client holds, and was refused.
C1_Witness ==
  /\ call.op = "allocate" /\ call.ret = -1
  /\ call.ttyreq \in 1..nbtty
  /\ pty_info[call.ttyreq].busy \notin {0, call.sockfd}
  /\ holder[call.ttyreq] = {pty_info[call.ttyreq].busy}

\* C2: lxc_console_free(conf, fd) releases every slot owned by fd and nothing else:
\* afterwards no tty slot and not the console proxy is busy with fd, every tty slot
\* and the console proxy owned by another fd are unchanged; and no call of allocate
\* or free changes the master descriptor of a tty slot.
C2_FreeReleasesOwnOnly ==
  [][/\ FreeStep =>
          LET fd == call'.sockfd IN
            /\ \A i \in 1..nbtty : pty_info'[i].busy # fd
            /\ console'.peerpty.busy # fd
            /\ \A i \in 1..nbtty : pty_info[i].busy # fd => pty_info'[i] = pty_info[i]
            /\ console.peerpty.busy # fd => console' = console
     /\ (AllocStep \/ FreeStep) =>
          /\ DOMAIN pty_info' = DOMAIN pty_info
          /\ \A i \in 1..nbtty : pty_info'[i].master = pty_info[i].master]_vars

\* free released a tty slot of its caller while another client still holds one.
C2_Witness ==
  /\ call.op = "free" /\ call.out >= 1
  /\ \E i \in 1..nbtty : pty_info[i].busy \notin {0, call.sockfd}

\* The 'any free tty' scenario on a container with two tty slots, all free: the
\* first two requests get indexes 1 and 2, a third fails, and once the first
\* client's fd is freed a fourth request gets index 1 again.
AnyTtyScenario ==
  (nbtty = 2 /\ \A i \in 1..nbtty : pty_info[i].busy = 0) =>
    \A f1 \in ClientFds : \A f2 \in ClientFds \ {f1} : \A f3 \in ClientFds, f4 \in ClientFds :
      LET r1 == lxc_console_allocate(St, f1, -1, OkEnv)
          r2 == lxc_console_allocate(r1.st, f2, -1, OkEnv)
          r3 == lxc_console_allocate(r2.st, f3, -1, OkEnv)
          s4 == lxc_console_free(r3.st, f1)
          r5 == lxc_console_allocate(s4, f4, -1, OkEnv)
      IN /\ r1.ttyreq = 1 /\ r1.ret = pty_info[1].master
         /\ r2.ttyreq = 2 /\ r2.ret = pty_info[2].master
         /\ r3.ret = -1
         /\ r5.ttyreq = 1 /\ r5.ret = pty_info[1].master

\* C3: an 'any free tty' request (ttyreq < 0) returns the master of the lowest-index
\* slot whose busy is 0, sets *ttyreq to its 1-based index and marks it busy with
\* the client's fd; it returns -1 exactly when every slot is busy. With two slots:
\* requests get 1 and 2, a third fails, and after the first client's free the next
\* request gets 1 again.
C3_AnyTtyLowestFree ==
  [][/\ AnyTtyScenario
     /\ (AllocStep /\ call'.ttyreq < 0) =>
          LET free == {i \in 1..nbtty : pty_info[i].busy = 0} IN
            /\ (call'.ret = -1) <=> (free = {})
            /\ free = {} => pty_info' = pty_info
            /\ free # {} =>
                 LET k == CHOOSE i \in free : \A j \in free : i <= j IN
                   /\ call'.ret = pty_info[k].master
                   /\ call'.out = k
                   /\ pty_info' = [pty_info EXCEPT ![k].busy = call'.sockfd]]_vars

\* An 'any tty' request got slot 1 while another client holds slot 2.
C3_Witness ==
  /\ call.op = "allocate" /\ call.ttyreq < 0 /\ call.out = 1 /\ call.ret >= 0
  /\ nbtty = 2
  /\ pty_info[1].busy = call.sockfd
  /\ pty_info[2].busy \notin {0, call.sockfd}

\* The conditions under which lxc_console_allocate rejects a request up front.
RejectedUpFront(ttyreq) ==
  \/ /\ ttyreq = 0
     /\ \/ console.master < 0
        \/ console.peerpty.busy # -1 \/ console.peer # -1
        \/ console.tty_state # 0
  \/ ttyreq > 0 /\ (ttyreq > nbtty \/ pty_info[ttyreq].busy # 0)
  \/ ttyreq < 0 /\ \A i \in 1..nbtty : pty_info[i].busy # 0

\* C4: an allocate call that is rejected up front (console request with no console,
\* with the proxy in use or with a tracker present; specific tty out of range or
\* busy; any tty with all slots busy) returns -1 and changes nothing: the tty
\* slots, the console fields, the tracker and the caller's *ttyreq are as before.
C4_RejectedChangesNothing ==
  [][(AllocStep /\ RejectedUpFront(call'.ttyreq)) =>
       /\ call'.ret = -1
       /\ call'.out = call'.ttyreq
       /\ UNCHANGED allocVars]_vars

\* A console request was rejected because a tracker exists although no peer is set.
C4_Witness ==
  /\ call.op = "allocate" /\ call.ttyreq = 0 /\ call.ret = -1
  /\ console.master >= 0 /\ console.peer = -1 /\ console.peerpty.busy = -1
  /\ console.tty_state # 0

\* C5 as stated: in every reachable state at most one slot (tty slots and console
\* proxy) is marked busy with any given fd.
C5_AtMostOneSlotPerFd == \A fd \in ClientFds : SlotsOf(fd) <= 1

\* C5, amended: the number of slots marked busy with a fd grows only by a successful
\* allocate of that fd, and then by exactly one; so a fd that holds no slot holds at
\* most one after any call (a fd holds several only by allocating again while it
\* holds one, which the allocator does not prevent).
C5_OneSlotPerAllocate ==
  [][\A fd \in ClientFds :
       /\ SlotsOf(fd)' > SlotsOf(fd) =>
            /\ AllocStep /\ call'.sockfd = fd /\ call'.ret >= 0
            /\ SlotsOf(fd)' = SlotsOf(fd) + 1
       /\ SlotsOf(fd) = 0 => SlotsOf(fd)' <= 1]_vars

\* A client that held nothing allocated and holds exactly one slot, another client
\* holding another slot.
C5_Witness ==
  /\ call.op = "allocate" /\ call.ret >= 0
  /\ SlotsOf(call.sockfd) = 1
  /\ \E fd \in ClientFds \ {call.sockfd} : SlotsOf(fd) = 1

\* The fds lxc_console_free may be called with: the clients', and two that own
\* nothing (0, the 'free' marker of a tty; -1, that of the console proxy).
AnyFds == ClientFds \cup {0, -1}

\* C6: lxc_console_free is idempotent: from every reachable state and for any fd,
\* calling it twice leaves the same state (tty slots, console, trackers, signal
\* mask, open descriptors, registered handlers) as calling it once.
C6_FreeIdempotent ==
  \A fd \in AnyFds :
    lxc_console_free(lxc_console_free(St, fd), fd) = lxc_console_free(St, fd)

\* free released the console proxy and a tty slot of its caller.
C6_Witness ==
  /\ call.op = "free" /\ call.ret = 1 /\ call.out >= 1
  /\ console.peerpty.busy = -1

\* ------------------------------------------------- claims on the attach driver
\* A handler call read a byte from stdin.
ByteStep == at_pc = "loop" /\ Len(rd') = Len(rd) + 1 /\ rd'[Len(rd')] # Eof

\* The session ended by the detach escape: the stdin pump returned 1 without writing.
Detached ==
  /\ at_pc = "returned"
  /\ hcall.h = "stdin" /\ hcall.r >= 0 /\ hcall.w = 0 /\ hcall.ret = 1

\* The session ended by an I/O failure inside a pump handler.
HandlerIoFailure ==
  /\ at_pc = "returned"
  /\ \/ hcall.h = "stdin" /\ (hcall.r < 0 \/ hcall.w < 0)
     \/ hcall.h = "master" /\ hcall.ret = 1

\* With escape = 1, the stream 0x01 0x01 'x' 0x01 'q' writes 0x01 then 'x' and ends
\* the loop.
EscapeScenario ==
  (at_arg.escape = 1 /\ rd = <<1, 1, 120, 1, CharQ>>) =>
    (wr = <<1, 120>> /\ Detached)

\* C7: the stdin pump is the detach escape state machine, for every byte read: the
\* escape byte with saw_escape clear is consumed and sets saw_escape; 'q' with
\* saw_escape set ends the loop before any write; any other byte clears saw_escape
\* and exactly that byte is written to masterfd (the loop ending if the write
\* fails). So escape, escape forwards one escape, and with escape = 1 the stream
\* 0x01 0x01 'x' 0x01 'q' writes exactly 0x01, 'x' and then terminates.
C7_EscapeStateMachine ==
  [][/\ EscapeScenario'
     /\ (rd' = <<at_arg.escape, at_arg.escape>> /\ at_pc' = "loop") =>
          (wr' = <<at_arg.escape>> /\ ts_heap'[at_ts'].saw_escape = 0)
     /\ ByteStep =>
          LET c == rd'[Len(rd')]
              ts == ts_heap[at_ts]
          IN /\ at_arg' = at_arg /\ ts.escape = at_arg.escape
             /\ (c = ts.escape /\ ts.saw_escape = 0) =>
                  /\ at_pc' = "loop" /\ wr' = wr
                  /\ ts_heap'[at_ts'].saw_escape = 1
             /\ (c = CharQ /\ ts.saw_escape = 1) =>
                  /\ at_pc' = "returned" /\ wr' = wr /\ hcall'.w = 0
             /\ (~(c = ts.escape /\ ts.saw_escape = 0) /\ ~(c = CharQ /\ ts.saw_escape = 1)) =>
                  /\ at_pc' = "loop" =>
                       (wr' = Append(wr, c) /\ ts_heap'[at_ts'].saw_escape = 0)
                  /\ at_pc' = "returned" => (wr' = wr /\ hcall'.w = -1)]_vars

\* The stream of the scenario was read to its end.
C7_Witness ==
  /\ at_arg.escape = 1 /\ rd = <<1, 1, 120, 1, CharQ>>
  /\ wr = <<1, 120>> /\ at_pc = "returned"

\* The bytes read from stdin: what the calls of read that returned 1 stored.
BytesRead == SelectSeq(rd, LAMBDA b : b # Eof)

\* The bytes of s the escape state machine forwards, started with saw_escape = saw.
RECURSIVE Forwarded(_, _, _)
Forwarded(s, esc, saw) ==
  IF s = << >> THEN << >>
  ELSE IF Head(s) = esc /\ saw = 0 THEN Forwarded(Tail(s), esc, 1)
  ELSE IF Head(s) = CharQ /\ saw = 1 THEN << >>
  ELSE <<Head(s)>> \o Forwarded(Tail(s), esc, 0)

\* s verbatim, but for an escape prefix that 'q' follows at its end, or that is
\* read last and still held back.
VerbatimButEscapeQ(s, esc) ==
  LET n == Len(s)
  IN {s}
     \cup (IF n >= 1 /\ s[n] = esc THEN {SubSeq(s, 1, n - 1)} ELSE {})
     \cup (IF n >= 2 /\ s[n - 1] = esc /\ s[n] = CharQ THEN {SubSeq(s, 1, n - 2)} ELSE {})

\* C8: round trip of the attach driver's input. For every byte sequence read from
\* stdin, with all writes succeeding, the bytes written to the master are the bytes
\* read, verbatim but for the escape prefix: removed when 'q' follows it and ends the
\* session, as the claim words it, or wherever the escape state machine of C7
\* consumes it. Under either reading every byte written is a byte that was read.
C8_VerbatimRoundTrip ==
  (at_pc = "loop" \/ Detached) =>
    \/ wr \in VerbatimButEscapeQ(BytesRead, at_arg.escape)
    \/ wr = Forwarded(BytesRead, at_arg.escape, 0)

\* C9: lxc_console returns 0 when the session ends by the detach escape, and a
\* non-zero value when it ends by an I/O failure inside a pump handler or by a
\* setup failure.
C9_ReturnTellsDetachFromFailure ==
  at_pc = "returned" =>
    /\ Detached => at_ret = 0
    /\ HandlerIoFailure => at_ret # 0
    /\ at_arg.setup # "ok" => at_ret # 0

\* Number of times event e occurs in sequence s.
Count(s, e) == Cardinality({i \in 1..Len(s) : s[i] = e})

\* C10: once setup_tios has put stdin into raw mode, every path on which lxc_console
\* returns (command-channel failure, tracker init failure, loop open or handler
\* registration failure, loop error, handler termination) restores the saved termios
\* exactly once, as the last thing before returning; until then stdin stays raw.
C10_TermiosRestoredOnce ==
  at_arg.setup \notin {"none", "notatty", "tios_fail"} =>
    /\ at_pc = "loop" => (stdin_tios = "raw" /\ Count(unwind, "tcsetattr") = 0)
    /\ at_pc = "returned" =>
         /\ Count(unwind, "tcsetattr") = 1
         /\ unwind[Len(unwind)] = "tcsetattr"
         /\ stdin_tios = "cooked"

\* lxc_console returned after the command channel failed, the terminal restored.
C10_Witness ==
  /\ at_pc = "returned" /\ at_arg.setup = "cmd_fail"
  /\ unwind = <<"tcsetattr">> /\ stdin_tios = "cooked"

\* C11: the attach driver's loop terminates when the master reaches end of file: when
\* the read on masterfd of lxc_console_cb_tty_master returns 0 bytes the handler
\* returns 'terminate' and lxc_console proceeds to its teardown (it has returned by
\* the time the handler call is over) instead of staying in the loop.
C11_MasterEofTerminates ==
  (hcall.h = "master" /\ hcall.r = 0) => at_pc = "returned"

\* ------------------------------------- claims on the console and its tracker
\* C13: in every state of a console (after lxc_console_create, failures inside
\* lxc_console_peer_default included, and after any sequence of console allocate and
\* free): peerpty.busy >= 0 if and only if console.peer equals peerpty.slave and a
\* winsize tracker (tty_state) exists for the console.
C13_BusyIffPeerIsProxy ==
  phase \in {"created", "running"} =>
    ((console.peerpty.busy >= 0)
       <=> (console.peer = console.peerpty.slave /\ console.tty_state # 0))

\* A console request that got past the up-front checks and failed part-way: it
\* returns -1 from the step that runs it to process_unlock() (openpty failed) or
\* from the step that runs it from there on (setup_tios or the tracker's init failed).
PartialFailure ==
  AllocStep /\ call'.ttyreq = 0 /\ call'.ret = -1 /\ ~RejectedUpFront(0)

\* A console request has created the proxy pty and goes on without the lock.
ProxyOpened == call' # call /\ call'.op = "allocating"

\* C14: a console allocate that fails part-way leaves no partial state. If creating
\* the proxy pty fails console.peer is untouched; if making the proxy slave raw or
\* the tracker's init fails, both proxy descriptors are closed, peerpty's master,
\* slave and busy are -1 again, console.peer is -1, tty_state is absent, and the
\* tracker registry and the signal mask are as before the call; a later console
\* allocate can succeed. (Up to process_unlock() the call only opens the two proxy
\* descriptors and stores them in peerpty; the failing remainder undoes exactly that.)
C14_FailedAllocLeavesNothing ==
  [][/\ (PartialFailure /\ phase = "running") =>
          /\ console' = console /\ console'.peer = -1
          /\ fds' = fds /\ descr' = descr
          /\ lxc_ttys' = lxc_ttys /\ sigmask' = sigmask /\ ts_heap' = ts_heap
     /\ ProxyOpened =>
          /\ console' = [console EXCEPT !.peerpty.master = console'.peerpty.master,
                                        !.peerpty.slave = console'.peerpty.slave]
          /\ {console'.peerpty.master, console'.peerpty.slave} \cap fds = {}
          /\ fds' = fds \cup {console'.peerpty.master, console'.peerpty.slave}
          /\ descr' = descr
          /\ lxc_ttys' = lxc_ttys /\ sigmask' = sigmask /\ ts_heap' = ts_heap
     /\ (PartialFailure /\ phase = "allocating") =>
          /\ console' = [console EXCEPT !.peerpty.master = -1, !.peerpty.slave = -1]
          /\ console'.peerpty = [master |-> -1, slave |-> -1, busy |-> -1]
          /\ console'.peer = -1 /\ console'.tty_state = 0
          /\ fds' = fds \ {console.peerpty.master, console.peerpty.slave}
          /\ descr' = descr
          /\ lxc_ttys' = lxc_ttys /\ sigmask' = sigmask /\ ts_heap' = ts_heap
     /\ PartialFailure =>
          \A fd \in ClientFds : lxc_console_allocate(St', fd, 0, OkEnv).ret >= 0]_vars

\* A console request failed although the console was free, and left it free.
C14_Witness ==
  /\ call.op = "allocate" /\ call.ttyreq = 0 /\ call.ret = -1
  /\ ~RejectedUpFront(0)
  /\ lxc_console_allocate(St, call.sockfd, 0, OkEnv).ret >= 0

\* ------------------------------------------------- claims on the trackers
\* C15: while any winsize tracker is live (between its successful
\* lxc_console_sigwinch_init and its lxc_console_sigwinch_fini) SIGWINCH is blocked
\* in the signal mask, for every interleaving of init and fini of several trackers
\* of the process, also when an earlier tracker is torn down while a later one lives.
C15_BlockedWhileTracked ==
  (\E i \in TsIds : ts_heap[i].live) => SIGWINCH \in sigmask

\* C16: after lxc_console_sigwinch_fini of a tracker the signal mask is the mask
\* observed immediately before that tracker's lxc_console_sigwinch_init; and so,
\* once all trackers have been torn down, in any order, the mask is the mask before
\* the first init.
C16_MaskAsBeforeInit ==
  tcall.op = "fini" =>
    /\ sigmask = premask[tcall.ts]
    /\ (\A i \in TsIds : ~ts_heap[i].live) => sigmask = mask0

\* C20: the registry lxc_ttys holds exactly the live trackers, and a console's
\* tracker never outlives the console: after lxc_console_delete (at teardown, or on
\* the error path of lxc_console_create) no tracker of the console is left in the
\* registry, and console.tty_state never refers to a tracker whose peer descriptor
\* (the descriptor it reads the window size from) has been closed.
C20_TrackerNeverOutlivesConsole ==
  /\ {lxc_ttys[i] : i \in 1..Len(lxc_ttys)} = {id \in TsIds : ts_heap[id].live}
  /\ Len(lxc_ttys) = Cardinality({id \in TsIds : ts_heap[id].live})
  /\ (phase \in {"failed", "deleted"} /\ console.master = -1) =>
       (lxc_ttys = << >> /\ console.tty_state = 0)
  /\ console.tty_state # 0 => ts_heap[console.tty_state].stdinfd \in fds

\* ------------------------------------------------- claims on the console pump
\* The writes of the last pump call that went to target to.
WritesTo(to) == SelectSeq(pcall.writes, LAMBDA x : x.to = to)

\* Bytes of the chunk the last pump call delivered to target to: a prefix of the
\* chunk of this length.
DeliveredTo(to) == IF WritesTo(to) = << >> THEN 0 ELSE Delivered(WritesTo(to)[1].w)

\* The last pump call read a chunk from the container master, a log being configured.
MasterChunkWithLog == pcall.r > 0 /\ pcall.fd = pcall.master /\ pcall.log_fd >= 0

\* The last pump call read a chunk from the peer.
PeerChunk == pcall.r > 0 /\ pcall.fd = pcall.peer /\ pcall.fd # pcall.master

\* C12 as stated: in the pump's fan-out of a chunk read from the container master
\* with a log configured, every byte delivered to the peer is also delivered to the
\* log, for any outcome (full, short or failed) of the two writes; and bytes read
\* from the peer are never written to the log.
C12_PeerBytesAlsoLogged ==
  /\ MasterChunkWithLog => DeliveredTo("peer") <= DeliveredTo("log")
  /\ PeerChunk => WritesTo("log") = << >>

\* C12, amended: with a log configured, a chunk read from the container master is
\* written once to the log and then, when there is a peer, once to the peer, each
\* write being given all the bytes read whatever the other returns (a short or
\* failed peer write never shortens what goes to the log); every byte delivered to
\* the peer is also delivered to the log whenever the log write is complete; and
\* bytes read from the peer are written to the master only, never to the log.
C12_FanOutIndependent ==
  /\ MasterChunkWithLog =>
       /\ Len(WritesTo("log")) = 1
       /\ WritesTo("log")[1].n = pcall.r /\ WritesTo("log")[1].fd = pcall.log_fd
       /\ pcall.writes[1].to = "log"
       /\ Len(WritesTo("peer")) = (IF pcall.peer >= 0 THEN 1 ELSE 0)
       /\ \A i \in DOMAIN pcall.writes :
            pcall.writes[i].to = "peer" =>
              (pcall.writes[i].n = pcall.r /\ pcall.writes[i].fd = pcall.peer)
       /\ WritesTo("log")[1].w = pcall.r => DeliveredTo("peer") <= DeliveredTo("log")
  /\ PeerChunk =>
       /\ WritesTo("log") = << >>
       /\ Len(pcall.writes) = 1 /\ pcall.writes[1].to = "master"
       /\ pcall.writes[1].n = pcall.r

\* A chunk from the master went whole to the log although the peer write was short.
C12_Witness ==
  /\ MasterChunkWithLog /\ pcall.peer >= 0
  /\ WritesTo("log")[1].w = pcall.r
  /\ WritesTo("peer")[1].w < pcall.r

\* C19: in the console pump every write (to the master, to the log or to the peer)
\* that transfers fewer bytes than were read produces the short-write warning, no
\* write is retried and the handler still returns 'keep the loop alive'; also when
\* the log write is short or fails and the peer write after it is complete.
C19_ShortWriteWarned ==
  pcall.r > 0 =>
    /\ (\E i \in DOMAIN pcall.writes : pcall.writes[i].w # pcall.writes[i].n) => pcall.warn
    /\ \A to \in {"master", "log", "peer"} : Len(WritesTo(to)) <= 1
    /\ pcall.ret = 0

\* C17: every descriptor owned by a console is closed exactly once over any sequence
\* of pump events, console allocate and free, and lxc_console_delete: no close() is
\* called on a descriptor that is no longer open (one the pump closed at end of
\* file is not closed again by lxc_console_free or lxc_console_delete), and the
\* pump writes to no descriptor that has been closed.
C17_ClosedExactlyOnce ==
  /\ dblclose = {}
  /\ \A i \in DOMAIN pcall.writes : pcall.writes[i].open

\* ------------------------------------------ the exit path of the attach driver
\* The releases of lxc_console's exit path, from label err4 to err1.
UnwindSeq == <<"mainloop_close", "sigwinch_fini", "close_masterfd", "close_ttyfd", "tcsetattr">>

\* How many of them are due when the setup ended with outcome o: what was acquired.
Releases(o) ==
  CASE o \in {"none", "notatty", "tios_fail"} -> 0
    [] o = "cmd_fail" -> 1
    [] o \in {"nomem", "block_fail", "sigfd_fail"} -> 3
    [] o = "loop_open_fail" -> 4
    [] OTHER -> 5

\* In the releases made, a comes before b when both were made.
Before(a, b) ==
  \A i \in 1..Len(unwind), j \in 1..Len(unwind) : (unwind[i] = a /\ unwind[j] = b) => i < j

\* C18 as stated: on every setup-error path and on normal exit lxc_console releases
\* in the order tracker teardown, loop close, command-channel fd (and master fd)
\* close, termios restoration, and releases only what it acquired.
C18_UnwindTrackerFirst ==
  at_pc = "returned" =>
    /\ Before("sigwinch_fini", "mainloop_close")
    /\ Before("mainloop_close", "close_masterfd") /\ Before("mainloop_close", "close_ttyfd")
    /\ Before("close_masterfd", "tcsetattr") /\ Before("close_ttyfd", "tcsetattr")
    /\ Len(unwind) = Releases(at_arg.setup)
    /\ \A e \in {UnwindSeq[i] : i \in 1..5} : Count(unwind, e) <= 1

\* C18, amended: on every setup-error path and on normal exit lxc_console releases
\* what it acquired in the reverse order of acquisition: loop close, then tracker
\* teardown, then master fd and command-channel fd close, then termios restoration;
\* only what was acquired is released, each once, and nothing before the return.
C18_UnwindLoopFirst ==
  /\ at_pc = "loop" => unwind = << >>
  /\ at_pc = "returned" =>
       unwind = SubSeq(UnwindSeq, 6 - Releases(at_arg.setup), 5)

\* Registering the master's handler failed: the loop was closed, then the tracker torn
\* down, the descriptors closed and the terminal restored.
C18_Witness ==
  /\ at_pc = "returned" /\ at_arg.setup = "add_master_fail"
  /\ unwind = UnwindSeq
  /\ at_ts = 0 /\ lxc_ttys = << >>

====
